---- MODULE Spec2Model ----
(***************************************************************************)
(* Model of autobahn/compress_bzip2.py: the permessage-bzip2 WebSocket     *)
(* extension.  Negotiation objects (PerMessageBzip2Offer, ...Accept,       *)
(* ...Response) and the per-connection processor PerMessageBzip2 with its  *)
(* message-scoped bz2 compressor and decompressor.                         *)
(***************************************************************************)
EXTENDS Integers, Sequences, FiniteSets, TLC

VARIABLES
    pc,          \* position of the handshake that drives the negotiation objects
    params,      \* the parameter mapping handed to Offer.parse / Response.parse
    cOffer,      \* the PerMessageBzip2Offer the client constructed
    pmceString,  \* the last string returned by getExtensionString
    offer,       \* the PerMessageBzip2Offer the server parsed
    accept,      \* the PerMessageBzip2Accept of the server
    response,    \* the PerMessageBzip2Response the client parsed
    pmce,        \* the PerMessageBzip2 processors, by side
    sender,      \* the side whose messages the open connection carries
    wire,        \* compressed data of the sender's message: not yet received, and the count received
    sent,        \* payload fed to the sender's compressor for its message, and whether it was ended
    rcvd,        \* output of the receiver's decompressor, the count it was fed from the wire, no error
    call         \* the last call: method, side, arguments, exception raised, bytes returned

negVars == <<pc, params, cOffer, pmceString, offer, accept, response>>
msgVars == <<pmce, sender, wire, sent, rcvd>>
vars == <<pc, params, cOffer, pmceString, offer, accept, response,
          pmce, sender, wire, sent, rcvd, call>>

None == [type |-> "NoneType"]

(***************************************************************************)
(* Bounds of the model.                                                    *)
(***************************************************************************)
MaxParams == 2      \* parameter names in one mapping
MaxOccur == 2       \* occurrences of one parameter name in one header
MaxLevelArg == 10   \* largest level passed to a constructor
MaxPayload == 2     \* bytes of one message payload
BlockUnit == 1      \* bytes of a block of a level 1 stream (bz2: 100k)

(***************************************************************************)
(* PerMessageBzip2Mixin                                                    *)
(***************************************************************************)
EXTENSION_NAME == "permessage-bzip2"

COMPRESS_LEVEL_PERMISSIBLE_VALUES == {1, 2, 3, 4, 5, 6, 7, 8, 9}

DEFAULT_COMPRESS_LEVEL == 9

(***************************************************************************)
(* Python values that reach the parsers: the str values of the header and  *)
(* the bool True that stands for a parameter given without a value.        *)
(***************************************************************************)
PyTrue == [type |-> "bool", v |-> "True"]

Str(s) == [type |-> "str", v |-> s]

\* the exceptions, by the text of their message
ErrDuplicate == "multiple occurence of extension parameter"
ErrInvalidValue == "illegal extension parameter value"
ErrUnknown == "illegal extension parameter"
ErrType == "invalid type"
ErrLevel == "invalid value for requestMaxCompressLevel - permissible values"
ErrUnsupported == "invalid value for requestMaxCompressLevel - feature unsupported by client"

\* the literal list ['1', '2', '3', '4', '5', '6', '7', '8', '9'] of the parsers
LevelStrings == {Str("1"), Str("2"), Str("3"), Str("4"), Str("5"),
                 Str("6"), Str("7"), Str("8"), Str("9")}

Digits == <<"0", "1", "2", "3", "4", "5", "6", "7", "8", "9">>

\* "%d" % n
RECURSIVE IntToStr(_)
IntToStr(n) ==
    IF n < 10 THEN Digits[n + 1]
    ELSE IntToStr(n \div 10) \o Digits[(n % 10) + 1]

\* int(val), for a val of the literal list
StrToInt(s) == CHOOSE n \in 0..9 : Digits[n + 1] = s

(***************************************************************************)
(* The inputs of the parsers: a mapping from parameter name to the list of *)
(* its values, visited in the order of the sequence (a dict has no order   *)
(* of its own: every order is drawn).                                      *)
(***************************************************************************)
C2S == "c2s_max_compress_level"
S2C == "s2c_max_compress_level"
Names == {C2S, S2C, "s2c_no_context_takeover"}

Values == {PyTrue, Str(""), Str("0"), Str("10"), Str("abc")} \cup LevelStrings
DupValues == {PyTrue, Str("1")}

ValueLists ==
    {<<v>> : v \in Values} \cup
    UNION {[1..k -> DupValues] : k \in 2..MaxOccur}

Entries == [name : Names, vals : ValueLists]

Distinct(m) == \A i, j \in 1..Len(m) : i # j => m[i].name # m[j].name

ParamMaps ==
    {m \in UNION {[1..k -> Entries] : k \in 0..MaxParams} : Distinct(m)}

Has(m, p) == \E i \in 1..Len(m) : m[i].name = p
Get(m, p) == m[CHOOSE i \in 1..Len(m) : m[i].name = p].vals

(***************************************************************************)
(* PerMessageBzip2Offer                                                    *)
(***************************************************************************)
Raise(e) == [err |-> e, obj |-> None]
Return(o) == [err |-> "", obj |-> o]

PyBool(b) == [type |-> "bool", b |-> b]
PyInt(b) == [type |-> "int", b |-> b]

\* the default arguments of __init__
OfferInitDefaults ==
    [acceptMaxCompressLevel |-> PyBool(TRUE), requestMaxCompressLevel |-> 0]

\* __init__(self, acceptMaxCompressLevel, requestMaxCompressLevel)
OfferInitLevelOk(requestMaxCompressLevel) ==
    ~(requestMaxCompressLevel # 0
      /\ requestMaxCompressLevel \notin COMPRESS_LEVEL_PERMISSIBLE_VALUES)

PerMessageBzip2Offer(acceptMaxCompressLevel, requestMaxCompressLevel) ==
    IF acceptMaxCompressLevel.type # "bool" THEN Raise(ErrType)
    ELSE IF ~OfferInitLevelOk(requestMaxCompressLevel) THEN Raise(ErrLevel)
    ELSE Return([class |-> "PerMessageBzip2Offer",
                 acceptMaxCompressLevel |-> acceptMaxCompressLevel.b,
                 requestMaxCompressLevel |-> requestMaxCompressLevel])

\* a parser that lets a repeated parameter through
OfferParseDuplicate_Ignored(vals) == FALSE

\* the checks of one pass of the loop "for p in params" of Offer.parse
OfferParseDuplicate(vals) == Len(vals) > 1

\* a parser that takes any value that is not empty for the flag
OfferParseFlagOk_Truthy(val) == val # Str("")

OfferParseFlagOk(val) == ~(val # PyTrue)

\* a parser that takes the numeral 0 for a level
OfferParseLevelOk_WithZero(val) == ~(val \notin LevelStrings \cup {Str("0")})

OfferParseLevelOk(val) == ~(val \notin LevelStrings)

\* a parser that skips a parameter it does not know
OfferParseUnknown_Skipped(st, e) == st

OfferParseUnknown(st, e) == [st EXCEPT !.err = ErrUnknown]

OfferParseStep(st, e) ==
    IF st.err # "" THEN st
    ELSE IF OfferParseDuplicate(e.vals) THEN [st EXCEPT !.err = ErrDuplicate]
    ELSE LET val == e.vals[1] IN
         IF e.name = C2S THEN
            IF ~OfferParseFlagOk(val) THEN [st EXCEPT !.err = ErrInvalidValue]
            ELSE [st EXCEPT !.acceptMaxCompressLevel = PyBool(TRUE)]
         ELSE IF e.name = S2C THEN
            IF ~OfferParseLevelOk(val) THEN [st EXCEPT !.err = ErrInvalidValue]
            ELSE [st EXCEPT !.requestMaxCompressLevel = StrToInt(val.v)]
         ELSE OfferParseUnknown(st, e)

RECURSIVE OfferParseLoop(_, _, _)
OfferParseLoop(m, i, st) ==
    IF i > Len(m) THEN st
    ELSE OfferParseLoop(m, i + 1, OfferParseStep(st, m[i]))

\* a parser that starts from the integer 0 for the flag
OfferParseDefaults_IntFlag ==
    [err |-> "",
     acceptMaxCompressLevel |-> PyInt(FALSE),
     requestMaxCompressLevel |-> 0]

\* a parser that starts from the defaults of the constructor
OfferParseDefaults_OfInit ==
    [err |-> "",
     acceptMaxCompressLevel |-> OfferInitDefaults.acceptMaxCompressLevel,
     requestMaxCompressLevel |-> OfferInitDefaults.requestMaxCompressLevel]

\* the extension parameter defaults of Offer.parse
OfferParseDefaults ==
    [err |-> "",
     acceptMaxCompressLevel |-> PyBool(FALSE),
     requestMaxCompressLevel |-> 0]

\* PerMessageBzip2Offer.parse(params)
OfferParse(m) ==
    LET st == OfferParseLoop(m, 1, OfferParseDefaults) IN
    IF st.err # "" THEN Raise(st.err)
    ELSE PerMessageBzip2Offer(st.acceptMaxCompressLevel, st.requestMaxCompressLevel)

\* a string is kept as the sequence of its tokens
Param(name) == <<"; ", name>>
ParamValue(name, n) == <<"; ", name, "=", IntToStr(n)>>

\* a serializer that writes the requested level before the flag
OfferGetExtensionString_Swapped(self) ==
    <<EXTENSION_NAME>>
    \o (IF self.requestMaxCompressLevel # 0
        THEN ParamValue(S2C, self.requestMaxCompressLevel) ELSE <<>>)
    \o (IF self.acceptMaxCompressLevel THEN Param(C2S) ELSE <<>>)

\* PerMessageBzip2Offer.getExtensionString(self)
OfferGetExtensionString(self) ==
    <<EXTENSION_NAME>>
    \o (IF self.acceptMaxCompressLevel THEN Param(C2S) ELSE <<>>)
    \o (IF self.requestMaxCompressLevel # 0
        THEN ParamValue(S2C, self.requestMaxCompressLevel) ELSE <<>>)

(***************************************************************************)
(* PerMessageBzip2Accept                                                   *)
(***************************************************************************)
AcceptInitLevelOk(requestMaxCompressLevel) ==
    ~(requestMaxCompressLevel # 0
      /\ requestMaxCompressLevel \notin COMPRESS_LEVEL_PERMISSIBLE_VALUES)

\* a constructor that does not look at what the offer accepts
AcceptInitSupported_Unchecked(o, requestMaxCompressLevel) == TRUE

AcceptInitSupported(o, requestMaxCompressLevel) ==
    ~(requestMaxCompressLevel # 0 /\ ~o.acceptMaxCompressLevel)

\* __init__(self, offer, requestMaxCompressLevel)
PerMessageBzip2Accept(o, requestMaxCompressLevel) ==
    IF o.class # "PerMessageBzip2Offer" THEN Raise(ErrType)
    ELSE IF ~AcceptInitLevelOk(requestMaxCompressLevel) THEN Raise(ErrLevel)
    ELSE IF ~AcceptInitSupported(o, requestMaxCompressLevel) THEN Raise(ErrUnsupported)
    ELSE Return([class |-> "PerMessageBzip2Accept",
                 offer |-> o,
                 requestMaxCompressLevel |-> requestMaxCompressLevel])

\* a serializer that writes its own level for both directions
AcceptGetExtensionString_OwnLevel(self) ==
    <<EXTENSION_NAME>>
    \o (IF self.requestMaxCompressLevel # 0
        THEN ParamValue(S2C, self.requestMaxCompressLevel) ELSE <<>>)
    \o (IF self.requestMaxCompressLevel # 0
        THEN ParamValue(C2S, self.requestMaxCompressLevel) ELSE <<>>)

\* PerMessageBzip2Accept.getExtensionString(self)
AcceptGetExtensionString(self) ==
    <<EXTENSION_NAME>>
    \o (IF self.offer.requestMaxCompressLevel # 0
        THEN ParamValue(S2C, self.offer.requestMaxCompressLevel) ELSE <<>>)
    \o (IF self.requestMaxCompressLevel # 0
        THEN ParamValue(C2S, self.requestMaxCompressLevel) ELSE <<>>)

(***************************************************************************)
(* PerMessageBzip2Response                                                 *)
(***************************************************************************)
\* __init__(self, c2s_max_compress_level, s2c_max_compress_level)
PerMessageBzip2Response(c2s_max_compress_level, s2c_max_compress_level) ==
    [class |-> "PerMessageBzip2Response",
     c2s_max_compress_level |-> c2s_max_compress_level,
     s2c_max_compress_level |-> s2c_max_compress_level]

ResponseParseDuplicate(vals) == Len(vals) > 1

ResponseParseLevelOk(val) == ~(val \notin LevelStrings)

\* one pass of the loop "for p in params" of Response.parse
ResponseParseStep(st, e) ==
    IF st.err # "" THEN st
    ELSE IF ResponseParseDuplicate(e.vals) THEN [st EXCEPT !.err = ErrDuplicate]
    ELSE LET val == e.vals[1] IN
         IF e.name = C2S THEN
            IF ~ResponseParseLevelOk(val) THEN [st EXCEPT !.err = ErrInvalidValue]
            ELSE [st EXCEPT !.c2s_max_compress_level = StrToInt(val.v)]
         ELSE IF e.name = S2C THEN
            IF ~ResponseParseLevelOk(val) THEN [st EXCEPT !.err = ErrInvalidValue]
            ELSE [st EXCEPT !.s2c_max_compress_level = StrToInt(val.v)]
         ELSE [st EXCEPT !.err = ErrUnknown]

RECURSIVE ResponseParseLoop(_, _, _)
ResponseParseLoop(m, i, st) ==
    IF i > Len(m) THEN st
    ELSE ResponseParseLoop(m, i + 1, ResponseParseStep(st, m[i]))

\* PerMessageBzip2Response.parse(params)
ResponseParse(m) ==
    LET st == ResponseParseLoop(m, 1, [err |-> "",
                                       c2s_max_compress_level |-> 0,
                                       s2c_max_compress_level |-> 0]) IN
    IF st.err # "" THEN Raise(st.err)
    ELSE Return(PerMessageBzip2Response(st.c2s_max_compress_level,
                                        st.s2c_max_compress_level))

(***************************************************************************)
(* The header layer between getExtensionString and parse: the parameters   *)
(* of one extension, each name with the list of its values, a parameter    *)
(* without "=value" with the value True.                                   *)
(***************************************************************************)
AddValue(m, name, v) ==
    IF Has(m, name)
    THEN [i \in 1..Len(m) |->
            IF m[i].name = name THEN [m[i] EXCEPT !.vals = Append(@, v)] ELSE m[i]]
    ELSE Append(m, [name |-> name, vals |-> <<v>>])

RECURSIVE HeaderParams(_, _, _)
HeaderParams(s, i, m) ==
    IF i > Len(s) THEN m
    ELSE IF i + 2 <= Len(s) /\ s[i + 2] = "="
         THEN HeaderParams(s, i + 4, AddValue(m, s[i + 1], Str(s[i + 3])))
         ELSE HeaderParams(s, i + 2, AddValue(m, s[i + 1], PyTrue))

ParseExtensionsHeader(s) == HeaderParams(s, 2, <<>>)

\* the orders in which a dict of these entries can be visited
Orders(m) ==
    {q \in [1..Len(m) -> {m[i] : i \in 1..Len(m)}] :
        \A i \in 1..Len(m) : \E j \in 1..Len(m) : q[j] = m[i]}

(***************************************************************************)
(* PerMessageBzip2: construction                                           *)
(***************************************************************************)
\* __init__(self, isServer, s2c_max_compress_level, c2s_max_compress_level)
\* a constructor that keeps the level 0
LevelOrDefault_Kept(level) == level

LevelOrDefault(level) == IF level # 0 THEN level ELSE DEFAULT_COMPRESS_LEVEL

PerMessageBzip2(isServer, s2c_max_compress_level, c2s_max_compress_level) ==
    [class |-> "PerMessageBzip2",
     isServer |-> isServer,
     compressor |-> None,
     decompressor |-> None,
     s2c_max_compress_level |-> LevelOrDefault(s2c_max_compress_level),
     c2s_max_compress_level |-> LevelOrDefault(c2s_max_compress_level)]

\* a factory that hands the two levels over in the wrong order
createFromResponse_Swapped(isServer, r) ==
    PerMessageBzip2(isServer, r.c2s_max_compress_level, r.s2c_max_compress_level)

createFromResponse(isServer, r) ==
    PerMessageBzip2(isServer, r.s2c_max_compress_level, r.c2s_max_compress_level)

createFromAccept(isServer, a) ==
    PerMessageBzip2(isServer, a.offer.requestMaxCompressLevel, a.requestMaxCompressLevel)

Sides == {"server", "client"}
Peer(p) == IF p = "server" THEN "client" ELSE "server"

\* the record of a call: op(args) raised exc or returned
Call(op, args, exc) == [op |-> op, args |-> args, exc |-> exc]

NoCall == [op |-> "", exc |-> "", ret |-> <<>>]
NoMsg == [data |-> <<>>, done |-> FALSE]
NoRcv == [data |-> <<>>, fed |-> 0, ok |-> TRUE]
NoWire == [toks |-> <<>>, taken |-> 0]

(***************************************************************************)
(* The handshake: the client offers, the server parses the offer and       *)
(* accepts it, the client parses the response; either side may also be     *)
(* handed the parameters of a foreign peer.                                *)
(***************************************************************************)
Init ==
    /\ pc = "init"
    /\ params = None
    /\ cOffer = None
    /\ pmceString = None
    /\ offer = None
    /\ accept = None
    /\ response = None
    /\ pmce = [p \in Sides |-> None]
    /\ sender = "server"
    /\ wire = NoWire
    /\ sent = NoMsg
    /\ rcvd = NoRcv
    /\ call = NoCall

OfferArgs == {PyBool(TRUE), PyBool(FALSE), PyInt(TRUE)}

\* the client constructs its offer
OfferInit ==
    /\ pc = "init"
    /\ \E a \in OfferArgs, r \in 0..MaxLevelArg :
         LET res == PerMessageBzip2Offer(a, r) IN
         /\ call' = Call("Offer.__init__", <<a, r>>, res.err)
         /\ cOffer' = res.obj
         /\ pc' = IF res.err = "" THEN "c_offer" ELSE "failed"
    /\ UNCHANGED <<params, pmceString, offer, accept, response>>
    /\ UNCHANGED msgVars

\* the client serializes its offer
OfferSend ==
    /\ pc = "c_offer"
    /\ pmceString' = OfferGetExtensionString(cOffer)
    /\ call' = Call("Offer.getExtensionString", <<>>, "")
    /\ pc' = "offer_sent"
    /\ UNCHANGED <<params, cOffer, offer, accept, response>>
    /\ UNCHANGED msgVars

\* the header layer of the receiving side hands over the parameters
HeaderParsed ==
    /\ pc \in {"offer_sent", "accept_sent"}
    /\ params' \in Orders(ParseExtensionsHeader(pmceString))
    /\ call' = Call("_parseExtensionsHeader", <<>>, "")
    /\ pc' = IF pc = "offer_sent" THEN "s_params" ELSE "c_params"
    /\ UNCHANGED <<cOffer, pmceString, offer, accept, response>>
    /\ UNCHANGED msgVars

\* parameters of a foreign peer arrive, as an offer or as a response
ForeignParams ==
    /\ pc = "init"
    /\ \E m \in ParamMaps, to \in {"s_params", "c_params"} :
          /\ params' = m
          /\ pc' = to
    /\ UNCHANGED <<cOffer, pmceString, offer, accept, response, call>>
    /\ UNCHANGED msgVars

\* the server parses the offer
OfferParsed ==
    /\ pc = "s_params"
    /\ LET res == OfferParse(params) IN
       /\ call' = Call("Offer.parse", <<>>, res.err)
       /\ offer' = res.obj
       /\ pc' = IF res.err = "" THEN "s_offer" ELSE "failed"
    /\ UNCHANGED <<params, cOffer, pmceString, accept, response>>
    /\ UNCHANGED msgVars

\* the server accepts the offer, requesting a level or none
AcceptInit ==
    /\ pc = "s_offer"
    /\ \E n \in 0..MaxLevelArg :
         LET res == PerMessageBzip2Accept(offer, n) IN
         /\ call' = Call("Accept.__init__", <<n>>, res.err)
         /\ accept' = res.obj
         /\ pc' = IF res.err = "" THEN "s_accept" ELSE "failed"
    /\ UNCHANGED <<params, cOffer, pmceString, offer, response>>
    /\ UNCHANGED msgVars

\* the server serializes its accept
AcceptSend ==
    /\ pc = "s_accept"
    /\ pmceString' = AcceptGetExtensionString(accept)
    /\ call' = Call("Accept.getExtensionString", <<>>, "")
    /\ pc' = "accept_sent"
    /\ UNCHANGED <<params, cOffer, offer, accept, response>>
    /\ UNCHANGED msgVars

\* the client parses the response
ResponseParsed ==
    /\ pc = "c_params"
    /\ LET res == ResponseParse(params) IN
       /\ call' = Call("Response.parse", <<>>, res.err)
       /\ response' = res.obj
       /\ pc' = IF res.err = "" THEN "c_response" ELSE "failed"
    /\ UNCHANGED <<params, cOffer, pmceString, offer, accept>>
    /\ UNCHANGED msgVars

\* the client creates its processor from the response
ClientCreate ==
    /\ pc = "c_response"
    /\ pmce' = [pmce EXCEPT !["client"] = createFromResponse(FALSE, response)]
    /\ call' = Call("createFromResponse", <<>>, "")
    /\ pc' = "c_open"
    /\ UNCHANGED <<params, cOffer, pmceString, offer, accept, response>>
    /\ UNCHANGED <<sender, wire, sent, rcvd>>

\* the server creates its processor from the accept
ServerCreate ==
    /\ pc = "c_open"
    /\ accept # None
    /\ pmce' = [pmce EXCEPT !["server"] = createFromAccept(TRUE, accept)]
    /\ call' = Call("createFromAccept", <<>>, "")
    /\ pc' = "created"
    /\ UNCHANGED <<params, cOffer, pmceString, offer, accept, response>>
    /\ UNCHANGED <<sender, wire, sent, rcvd>>

Next ==
    \/ OfferInit
    \/ OfferSend
    \/ HeaderParsed
    \/ ForeignParams
    \/ OfferParsed
    \/ AcceptInit
    \/ AcceptSend
    \/ ResponseParsed
    \/ ClientCreate
    \/ ServerCreate

Spec == Init /\ [][Next]_vars

(***************************************************************************)
(* What the negotiation is required to do.                                 *)
(***************************************************************************)
\* the decimal numerals of the levels, as the header carries them
Numeral == <<"1", "2", "3", "4", "5", "6", "7", "8", "9">>

IsLevelValue(val) == \E n \in 1..9 : val = [type |-> "str", v |-> Numeral[n]]
IsFlagValue(val) == val = [type |-> "bool", v |-> "True"]

\* an entry that an offer, or a response, may carry
GoodOfferEntry(e) ==
    /\ Len(e.vals) = 1
    /\ \/ e.name = "c2s_max_compress_level" /\ IsFlagValue(e.vals[1])
       \/ e.name = "s2c_max_compress_level" /\ IsLevelValue(e.vals[1])

GoodResponseEntry(e) ==
    /\ Len(e.vals) = 1
    /\ e.name \in {"c2s_max_compress_level", "s2c_max_compress_level"}
    /\ IsLevelValue(e.vals[1])

ParsedOffer == call.op = "Offer.parse"
ParsedResponse == call.op = "Response.parse"
Parsed == ParsedOffer \/ ParsedResponse
GoodEntry(e) == IF ParsedOffer THEN GoodOfferEntry(e) ELSE GoodResponseEntry(e)

\* every entry of params but the i-th is one the parser accepts
OthersGood(i) == \A j \in 1..Len(params) : j # i => GoodEntry(params[j])

\* every entry of params visited before the i-th is one the parser accepts
EarlierGood(i) == \A j \in 1..(i - 1) : GoodEntry(params[j])

ParsedObject == IF ParsedOffer THEN offer ELSE response

ConstructedAccept == call.op = "Accept.__init__"

\* C2 as stated: constructing an Accept with a non-zero requestMaxCompressLevel
\* against an Offer whose acceptMaxCompressLevel is false fails with the
\* unsupported-feature error and produces no Accept.
C2_AnyNonZeroLevelUnsupported ==
    (ConstructedAccept /\ call.args[1] # 0 /\ ~offer.acceptMaxCompressLevel)
        => (call.exc = ErrUnsupported /\ accept = None)

\* C2, amended: constructing an Accept with a requestMaxCompressLevel of 1..9
\* against an Offer whose acceptMaxCompressLevel is false fails with the
\* unsupported-feature error, and with any non-zero level it produces no Accept;
\* every Accept that exists has requestMaxCompressLevel # 0 only if its offer's
\* acceptMaxCompressLevel is true.
C2_AcceptUnsupported ==
    /\ (ConstructedAccept /\ call.args[1] \in 1..9 /\ ~offer.acceptMaxCompressLevel)
          => (call.exc = ErrUnsupported /\ accept = None)
    /\ (ConstructedAccept /\ call.args[1] # 0 /\ ~offer.acceptMaxCompressLevel)
          => (call.exc # "" /\ accept = None)
    /\ accept # None
          => (accept.requestMaxCompressLevel # 0 => accept.offer.acceptMaxCompressLevel)

C2_Witness ==
    /\ ConstructedAccept
    /\ call.args[1] = 5
    /\ ~offer.acceptMaxCompressLevel
    /\ call.exc = ErrUnsupported
    /\ accept = None

\* C3 as stated: a mapping in which some parameter name has more than one value
\* fails with the duplicate-parameter error, whatever else the mapping holds and
\* in whatever order it is visited.
C3_AlwaysDuplicateError ==
    (Parsed /\ \E i \in 1..Len(params) : Len(params[i].vals) > 1)
        => call.exc = ErrDuplicate

\* C3, amended: a mapping in which some parameter name has more than one value
\* fails, for Offer.parse and Response.parse alike, and returns no object; the
\* error is the duplicate-parameter error when every parameter visited before
\* the duplicated one is acceptable, whether or not the duplicated name is a
\* recognised key (a parameter visited earlier that is unknown or has an illegal
\* value fails with its own error first).
C3_DuplicateFails ==
    Parsed =>
        \A i \in 1..Len(params) :
            Len(params[i].vals) > 1 =>
                /\ call.exc \in {ErrDuplicate, ErrUnknown, ErrInvalidValue}
                /\ ParsedObject = None
                /\ EarlierGood(i) => call.exc = ErrDuplicate

C3_Witness ==
    /\ ParsedResponse
    /\ Len(params) = 2
    /\ GoodResponseEntry(params[1])
    /\ params[2].name = "s2c_no_context_takeover"
    /\ Len(params[2].vals) > 1
    /\ call.exc = ErrDuplicate

\* the field that a leveled parameter sets
LeveledField(name) ==
    IF ParsedOffer THEN offer.requestMaxCompressLevel
    ELSE IF name = "c2s_max_compress_level" THEN response.c2s_max_compress_level
    ELSE response.s2c_max_compress_level

IsLeveled(name) ==
    \/ ParsedOffer /\ name = "s2c_max_compress_level"
    \/ ParsedResponse /\ name \in {"c2s_max_compress_level", "s2c_max_compress_level"}

\* C4: a leveled parameter (s2c_max_compress_level of an offer, either level of
\* a response) whose single value is the numeral of n in 1..9 is parsed to the
\* field value n; with any other single value, the flag value True included,
\* parse fails with the invalid-parameter-value error (the rest of the mapping
\* being acceptable).
C4_LeveledParameter ==
    Parsed =>
        \A i \in 1..Len(params) :
            (IsLeveled(params[i].name) /\ Len(params[i].vals) = 1 /\ OthersGood(i)) =>
                LET val == params[i].vals[1] IN
                /\ \A n \in 1..9 :
                      val = [type |-> "str", v |-> Numeral[n]]
                          => (call.exc = "" /\ LeveledField(params[i].name) = n)
                /\ ~IsLevelValue(val)
                      => (call.exc = ErrInvalidValue /\ ParsedObject = None)

C4_Witness ==
    /\ ParsedResponse
    /\ Len(params) = 2
    /\ params[1] = [name |-> "s2c_max_compress_level", vals |-> <<[type |-> "str", v |-> "7"]>>]
    /\ params[2] = [name |-> "c2s_max_compress_level", vals |-> <<[type |-> "str", v |-> "3"]>>]
    /\ response.s2c_max_compress_level = 7
    /\ response.c2s_max_compress_level = 3

\* the string of an offer that accepts a level request and requests level r
OfferString(r) ==
    <<"permessage-bzip2", "; ", "c2s_max_compress_level">>
    \o (IF r # 0 THEN <<"; ", "s2c_max_compress_level", "=", Numeral[r]>> ELSE <<>>)

\* C8: an Offer with acceptMaxCompressLevel = true is serialized as the
\* extension name, then c2s_max_compress_level without a value, then
\* s2c_max_compress_level=<n> iff requestMaxCompressLevel # 0; and Offer.parse
\* of the parameters of that string returns an Offer with the same two fields.
C8_OfferRoundTrip ==
    (cOffer # None /\ cOffer.acceptMaxCompressLevel) =>
        /\ cOffer.requestMaxCompressLevel \in 0..9
        /\ pc \in {"offer_sent", "s_params"}
              => pmceString = OfferString(cOffer.requestMaxCompressLevel)
        /\ ParsedOffer
              => /\ call.exc = ""
                 /\ offer.acceptMaxCompressLevel = cOffer.acceptMaxCompressLevel
                 /\ offer.requestMaxCompressLevel = cOffer.requestMaxCompressLevel

C8_Witness ==
    /\ cOffer # None
    /\ cOffer.acceptMaxCompressLevel
    /\ cOffer.requestMaxCompressLevel = 4
    /\ ParsedOffer
    /\ Len(params) = 2
    /\ params[1].name = "s2c_max_compress_level"
    /\ offer.requestMaxCompressLevel = 4

\* the string of an accept: the level the offer requested, then its own
AcceptString(v, n) ==
    <<"permessage-bzip2">>
    \o (IF v # 0 THEN <<"; ", "s2c_max_compress_level", "=", Numeral[v]>> ELSE <<>>)
    \o (IF n # 0 THEN <<"; ", "c2s_max_compress_level", "=", Numeral[n]>> ELSE <<>>)

\* C9: an Accept is serialized as the extension name, then
\* s2c_max_compress_level=<v> iff the offer it answers requested a level v # 0
\* (the value of that offer, not one of the Accept's own), then
\* c2s_max_compress_level=<n> iff the Accept requests n # 0, and nothing else.
C9_AcceptString ==
    pc = "accept_sent" =>
        /\ accept.offer = offer
        /\ pmceString = AcceptString(offer.requestMaxCompressLevel,
                                     accept.requestMaxCompressLevel)

C9_Witness ==
    /\ pc = "accept_sent"
    /\ offer.requestMaxCompressLevel = 2
    /\ accept.requestMaxCompressLevel = 8
    /\ pmceString = <<"permessage-bzip2", "; ", "s2c_max_compress_level", "=", "2",
                      "; ", "c2s_max_compress_level", "=", "8">>

IsKnown(name) == name \in {"c2s_max_compress_level", "s2c_max_compress_level"}

\* C11: Offer.parse and Response.parse of a mapping that holds, with a single
\* value, a parameter name other than c2s_max_compress_level and
\* s2c_max_compress_level fail and return no object; the error is the
\* unknown-parameter error when the parameters visited before it are
\* acceptable, and so when all the other parameters are.
C11_UnknownParameter ==
    Parsed =>
        \A i \in 1..Len(params) :
            (~IsKnown(params[i].name) /\ Len(params[i].vals) = 1) =>
                /\ call.exc \in {ErrDuplicate, ErrUnknown, ErrInvalidValue}
                /\ ParsedObject = None
                /\ EarlierGood(i) => call.exc = ErrUnknown

C11_Witness ==
    /\ ParsedOffer
    /\ Len(params) = 2
    /\ params[1] = [name |-> "s2c_max_compress_level", vals |-> <<[type |-> "str", v |-> "3"]>>]
    /\ ~IsKnown(params[2].name)
    /\ params[2].vals = <<[type |-> "bool", v |-> "True"]>>
    /\ call.exc = ErrUnknown
    /\ offer = None

\* C10: in Offer.parse, c2s_max_compress_level with the single value True sets
\* acceptMaxCompressLevel to true; with any other single value ("1", "9", the
\* empty string, ...) parse fails with the invalid-parameter-value error and
\* returns no Offer (the rest of the mapping being acceptable).
C10_OfferFlag ==
    ParsedOffer =>
        \A i \in 1..Len(params) :
            (params[i].name = "c2s_max_compress_level"
             /\ Len(params[i].vals) = 1 /\ OthersGood(i)) =>
                IF IsFlagValue(params[i].vals[1])
                THEN call.exc = "" /\ offer.acceptMaxCompressLevel = TRUE
                ELSE call.exc = ErrInvalidValue /\ offer = None

C10_Witness ==
    /\ ParsedOffer
    /\ Len(params) = 2
    /\ params[1].name = "s2c_max_compress_level"
    /\ params[2] = [name |-> "c2s_max_compress_level", vals |-> <<[type |-> "str", v |-> "9"]>>]
    /\ call.exc = ErrInvalidValue
    /\ offer = None

(***************************************************************************)
(* The bz2 module, as the processor uses it.  A compressed stream is a     *)
(* header naming the level, the blocks, and the end-of-stream mark; a      *)
(* block holds at most level * BlockUnit bytes.  The compressor buffers    *)
(* its input and returns the blocks that are full; flush returns the rest  *)
(* and ends the stream.                                                    *)
(***************************************************************************)
Bytes == {"a", "b"}

Hdr(level) == [k |-> "BZh", x |-> <<IntToStr(level)>>]
Blk(data) == [k |-> "block", x |-> data]
Eos == [k |-> "eos", x |-> <<>>]
Junk == [k |-> "junk", x |-> <<>>]

\* bz2.BZ2Compressor(level)
BZ2Compressor(level) ==
    [class |-> "BZ2Compressor", level |-> level, buf |-> <<>>,
     hdr |-> FALSE, flushed |-> FALSE]

BlockSize(level) == level * BlockUnit

RECURSIVE FullBlocks(_, _)
FullBlocks(buf, size) ==
    IF Len(buf) < size THEN <<>>
    ELSE <<Blk(SubSeq(buf, 1, size))>> \o FullBlocks(SubSeq(buf, size + 1, Len(buf)), size)

Rest(buf, size) == SubSeq(buf, Len(buf) - (Len(buf) % size) + 1, Len(buf))

\* BZ2Compressor.compress(data)
BZ2Compress(c, data) ==
    IF c.flushed
    THEN [obj |-> c, exc |-> "ValueError", ret |-> <<>>]
    ELSE LET all == c.buf \o data
             blocks == FullBlocks(all, BlockSize(c.level))
             head == IF ~c.hdr /\ blocks # <<>> THEN <<Hdr(c.level)>> ELSE <<>>
         IN [obj |-> [c EXCEPT !.buf = Rest(all, BlockSize(c.level)),
                               !.hdr = c.hdr \/ blocks # <<>>],
             exc |-> "",
             ret |-> head \o blocks]

\* BZ2Compressor.flush()
BZ2Flush(c) ==
    IF c.flushed
    THEN [obj |-> c, exc |-> "ValueError", ret |-> <<>>]
    ELSE [obj |-> [c EXCEPT !.buf = <<>>, !.hdr = TRUE, !.flushed = TRUE],
          exc |-> "",
          ret |-> (IF c.hdr THEN <<>> ELSE <<Hdr(c.level)>>)
                  \o (IF c.buf # <<>> THEN <<Blk(c.buf)>> ELSE <<>>)
                  \o <<Eos>>]

\* bz2.BZ2Decompressor()
BZ2Decompressor ==
    [class |-> "BZ2Decompressor", st |-> "new", unused_data |-> <<>>]

\* the decompressor reads one token of the stream
BZ2Read(d, t) ==
    IF d.st = "bad" THEN d
    ELSE IF d.st = "eos" THEN [d EXCEPT !.unused_data = Append(@, t)]
    ELSE IF d.st = "new" THEN
        IF t.k = "BZh" THEN [d EXCEPT !.st = "run"] ELSE [d EXCEPT !.st = "bad"]
    ELSE IF t.k = "block" THEN d
    ELSE IF t.k = "eos" THEN [d EXCEPT !.st = "eos"]
    ELSE [d EXCEPT !.st = "bad"]

BZ2Out(d, t) == IF d.st = "run" /\ t.k = "block" THEN t.x ELSE <<>>

RECURSIVE BZ2Scan(_, _, _, _)
BZ2Scan(d, data, i, out) ==
    IF i > Len(data) THEN [obj |-> d, out |-> out]
    ELSE BZ2Scan(BZ2Read(d, data[i]), data, i + 1, out \o BZ2Out(d, data[i]))

\* BZ2Decompressor.decompress(data)
BZ2Decompress(d, data) ==
    IF d.st = "eos" THEN [obj |-> d, exc |-> "EOFError", ret |-> <<>>]
    ELSE LET r == BZ2Scan(d, data, 1, <<>>) IN
         IF r.obj.st = "bad" THEN [obj |-> r.obj, exc |-> "IOError", ret |-> <<>>]
         ELSE [obj |-> r.obj, exc |-> "", ret |-> r.out]

(***************************************************************************)
(* PerMessageBzip2: the methods called once per message                    *)
(***************************************************************************)
\* a processor that compresses with the level of the other direction
SendLevel_Swapped(self) ==
    IF self.isServer THEN self.c2s_max_compress_level ELSE self.s2c_max_compress_level

SendLevel(self) ==
    IF self.isServer THEN self.s2c_max_compress_level ELSE self.c2s_max_compress_level

\* a start that replaces a compressor that is in use
startCompressMessage_Always(self) ==
    [self EXCEPT !.compressor = BZ2Compressor(SendLevel(self))]

\* a start that also clears the receiving direction
startCompressMessage_Resets(self) ==
    IF self.compressor = None
    THEN [self EXCEPT !.compressor = BZ2Compressor(SendLevel(self)),
                      !.decompressor = None]
    ELSE self

startCompressMessage(self) ==
    IF self.compressor = None
    THEN [self EXCEPT !.compressor = BZ2Compressor(SendLevel(self))]
    ELSE self

\* a feed that takes a missing compressor for nothing to do
compressMessageData_Absorbed(self, data) ==
    IF self.compressor = None
    THEN [obj |-> self, exc |-> "", ret |-> <<>>]
    ELSE LET r == BZ2Compress(self.compressor, data) IN
         [obj |-> [self EXCEPT !.compressor = r.obj], exc |-> r.exc, ret |-> r.ret]

compressMessageData(self, data) ==
    IF self.compressor = None
    THEN [obj |-> self, exc |-> "AttributeError", ret |-> <<>>]
    ELSE LET r == BZ2Compress(self.compressor, data) IN
         [obj |-> [self EXCEPT !.compressor = r.obj], exc |-> r.exc, ret |-> r.ret]

\* an end that keeps the compressor and its stream open for the next message
AfterFlush_Reused(c) == [c EXCEPT !.flushed = FALSE]

\* an end that keeps the flushed compressor
AfterFlush_Kept(c) == c

\* after flush() has returned, the compressor is dropped
AfterFlush(c) == None

endCompressMessage(self) ==
    IF self.compressor = None
    THEN [obj |-> self, exc |-> "AttributeError", ret |-> <<>>]
    ELSE LET r == BZ2Flush(self.compressor) IN
         IF r.exc # ""
         THEN [obj |-> [self EXCEPT !.compressor = r.obj], exc |-> r.exc, ret |-> <<>>]
         ELSE [obj |-> [self EXCEPT !.compressor = AfterFlush(r.obj)],
               exc |-> "", ret |-> r.ret]

startDecompressMessage(self) ==
    IF self.decompressor = None
    THEN [self EXCEPT !.decompressor = BZ2Decompressor]
    ELSE self

\* a feed that hides the failure of the decompressor and returns nothing
decompressMessageData_Swallowed(self, data) ==
    IF self.decompressor = None
    THEN [obj |-> self, exc |-> "AttributeError", ret |-> <<>>]
    ELSE LET r == BZ2Decompress(self.decompressor, data) IN
         [obj |-> [self EXCEPT !.decompressor = r.obj], exc |-> "", ret |-> r.ret]

decompressMessageData(self, data) ==
    IF self.decompressor = None
    THEN [obj |-> self, exc |-> "AttributeError", ret |-> <<>>]
    ELSE LET r == BZ2Decompress(self.decompressor, data) IN
         [obj |-> [self EXCEPT !.decompressor = r.obj], exc |-> r.exc, ret |-> r.ret]

\* an end that keeps the decompressor for the next message
endDecompressMessage_Kept(self) == self

endDecompressMessage(self) == [self EXCEPT !.decompressor = None]

(***************************************************************************)
(* The open connection.  The sender compresses the messages it sends and   *)
(* the other side decompresses them; one message is on the way at a time.  *)
(* Every method can be called on either side at any time.                  *)
(***************************************************************************)
Chunks == UNION {[1..k -> Bytes] : k \in 0..MaxPayload}

\* the handshake of InitMsg: the level the offer requests, the level the
\* accept requests, and the parameters of the response that the client parses;
\* the server then sends with level 9 and the client with level 1
MsgHandshakes ==
    {[request |-> 0, accept |-> 1,
      params |-> <<[name |-> C2S, vals |-> <<Str("1")>>]>>]}

\* the handshakes that end with both processors created
InitMsg ==
    /\ pc = "open"
    /\ cOffer = None
    /\ pmceString = None
    /\ \E h \in MsgHandshakes :
         LET o == PerMessageBzip2Offer(PyBool(TRUE), h.request).obj
             acc == PerMessageBzip2Accept(o, h.accept)
             res == ResponseParse(h.params)
         IN /\ acc.err = ""
            /\ res.err = ""
            /\ params = h.params
            /\ offer = o
            /\ accept = acc.obj
            /\ response = res.obj
            /\ pmce = [p \in Sides |->
                         IF p = "server" THEN createFromAccept(TRUE, acc.obj)
                         ELSE createFromResponse(FALSE, res.obj)]
    /\ sender \in Sides
    /\ wire = NoWire
    /\ sent = NoMsg
    /\ rcvd = NoRcv
    /\ call = NoCall

Result(op, r) == [op |-> op, exc |-> r.exc, ret |-> r.ret]
Done(op) == [op |-> op, exc |-> "", ret |-> <<>>]

StartCompressMessage(p) ==
    /\ pc = "open"
    /\ p = sender
    /\ pmce[p].compressor = None => wire.toks = <<>>
    /\ pmce' = [pmce EXCEPT ![p] = startCompressMessage(pmce[p])]
    /\ call' = Done("startCompressMessage")
    /\ IF pmce[p].compressor = None
       THEN /\ sent' = NoMsg
            /\ wire' = NoWire
       ELSE UNCHANGED <<sent, wire>>
    /\ UNCHANGED <<sender, rcvd>>
    /\ UNCHANGED negVars

\* the chunks side p feeds: the sender those that keep the payload of its
\* message within MaxPayload bytes; the other side, which has no message to
\* send and never has a compressor, the empty one
Feeds(p) ==
    IF p = sender
    THEN {data \in Chunks : Len(sent.data) + Len(data) <= MaxPayload}
    ELSE {<<>>}

CompressMessageData(p) ==
    /\ pc = "open"
    /\ \E data \in Feeds(p) :
         LET r == compressMessageData(pmce[p], data) IN
         /\ pmce' = [pmce EXCEPT ![p] = r.obj]
         /\ call' = Result("compressMessageData", r)
         /\ IF r.exc = ""
            THEN /\ sent' = [sent EXCEPT !.data = @ \o data]
                 /\ wire' = [wire EXCEPT !.toks = @ \o r.ret]
            ELSE UNCHANGED <<sent, wire>>
    /\ UNCHANGED <<sender, rcvd>>
    /\ UNCHANGED negVars

EndCompressMessage(p) ==
    /\ pc = "open"
    /\ LET r == endCompressMessage(pmce[p]) IN
       /\ pmce' = [pmce EXCEPT ![p] = r.obj]
       /\ call' = Result("endCompressMessage", r)
       /\ IF r.exc = ""
          THEN /\ sent' = [sent EXCEPT !.done = TRUE]
               /\ wire' = [wire EXCEPT !.toks = @ \o r.ret]
          ELSE UNCHANGED <<sent, wire>>
    /\ UNCHANGED <<sender, rcvd>>
    /\ UNCHANGED negVars

StartDecompressMessage(q) ==
    /\ pc = "open"
    /\ pmce' = [pmce EXCEPT ![q] = startDecompressMessage(pmce[q])]
    /\ call' = Done("startDecompressMessage")
    /\ IF pmce[q].decompressor = None /\ q = Peer(sender)
       THEN rcvd' = NoRcv
       ELSE UNCHANGED rcvd
    /\ UNCHANGED <<sender, wire, sent>>
    /\ UNCHANGED negVars

\* what is on the way to side q
Inbound(q) == IF q = Peer(sender) THEN wire.toks ELSE <<>>

\* side q is fed the next k tokens on their way to it
DecompressMessageData(q) ==
    /\ pc = "open"
    /\ \E k \in 0..Len(Inbound(q)) :
         LET data == SubSeq(Inbound(q), 1, k)
             r == decompressMessageData(pmce[q], data)
         IN
         /\ pmce' = [pmce EXCEPT ![q] = r.obj]
         /\ call' = Result("decompressMessageData", r)
         /\ wire' = [toks |-> SubSeq(wire.toks, k + 1, Len(wire.toks)),
                     taken |-> wire.taken + k]
         /\ IF q = sender
            THEN UNCHANGED rcvd
            ELSE rcvd' = IF rcvd.ok /\ r.exc = ""
                         THEN [rcvd EXCEPT !.data = @ \o r.ret, !.fed = @ + k]
                         ELSE [rcvd EXCEPT !.ok = FALSE]
    /\ UNCHANGED <<sender, sent>>
    /\ UNCHANGED negVars

\* the receiving side is fed data that is no compressed stream
DecompressJunk(q) ==
    /\ pc = "open"
    /\ q = Peer(sender)
    /\ LET r == decompressMessageData(pmce[q], <<Junk>>) IN
       /\ pmce' = [pmce EXCEPT ![q] = r.obj]
       /\ call' = Result("decompressMessageData", r)
       /\ rcvd' = [rcvd EXCEPT !.ok = FALSE]
    /\ UNCHANGED <<sender, wire, sent>>
    /\ UNCHANGED negVars

EndDecompressMessage(q) ==
    /\ pc = "open"
    /\ pmce' = [pmce EXCEPT ![q] = endDecompressMessage(pmce[q])]
    /\ call' = Done("endDecompressMessage")
    /\ UNCHANGED <<sender, wire, sent, rcvd>>
    /\ UNCHANGED negVars

NextMsg ==
    \E p \in Sides :
        \/ StartCompressMessage(p)
        \/ CompressMessageData(p)
        \/ EndCompressMessage(p)
        \/ StartDecompressMessage(p)
        \/ DecompressMessageData(p)
        \/ DecompressJunk(p)
        \/ EndDecompressMessage(p)

SpecMsg == InitMsg /\ [][NextMsg]_vars

\* the handshakes together with the open connections
InitAll == Init \/ InitMsg
NextAll == Next \/ NextMsg
SpecAll == InitAll /\ [][NextAll]_vars

(***************************************************************************)
(* What the open connection is required to do.                             *)
(***************************************************************************)
Receiver == pmce[Peer(sender)]

\* the message is complete, all of it has left the wire, and the decompressor
\* of the receiver took every piece of it, in order, without a failure
Received ==
    /\ sent.done
    /\ wire.toks = <<>>
    /\ rcvd.ok
    /\ rcvd.fed = wire.taken

\* C1: for every message of a connection, whatever the payload, its split into
\* chunks for compressMessageData and the split of the compressed stream into
\* chunks for decompressMessageData, the outputs of the decompressor that was
\* created for the message concatenate to the payload.
C1_RoundTrip == Received => rcvd.data = sent.data

\* a payload of two blocks is received in more than one piece, the last of
\* them carrying the second block
C1_Witness ==
    /\ Received
    /\ sent.data = <<"a", "b">>
    /\ rcvd.data = <<"a", "b">>
    /\ wire.taken = 4
    /\ call.op = "decompressMessageData"
    /\ call.ret = <<"b">>
    /\ Receiver.decompressor.st = "eos"

\* the level a processor is created with, from the level that was negotiated
CreatedLevel(level) == IF level = 0 THEN 9 ELSE level

LevelsOf(p) == <<pmce[p].s2c_max_compress_level, pmce[p].c2s_max_compress_level>>

\* C5: the two levels of a processor are in 1..9 from its construction on, a
\* negotiated level of 0 being replaced by 9: the server's are those of the
\* Accept and its Offer, the client's those of the Response; no operation
\* changes them.
C5_Levels ==
    /\ \A p \in Sides :
          pmce[p] # None =>
              /\ pmce[p].s2c_max_compress_level \in 1..9
              /\ pmce[p].c2s_max_compress_level \in 1..9
    /\ pmce["server"] # None
          => LevelsOf("server") = <<CreatedLevel(accept.offer.requestMaxCompressLevel),
                                    CreatedLevel(accept.requestMaxCompressLevel)>>
    /\ pmce["client"] # None
          => LevelsOf("client") = <<CreatedLevel(response.s2c_max_compress_level),
                                    CreatedLevel(response.c2s_max_compress_level)>>

\* a message has gone through a processor that was created for level 0
C5_Witness ==
    /\ Received
    /\ sender = "server"
    /\ accept.offer.requestMaxCompressLevel = 0
    /\ sent.data # <<>>
    /\ rcvd.data = sent.data
    /\ LevelsOf("server") = <<9, 1>>
    /\ LevelsOf("client") = <<9, 1>>

\* C6: after every successful endCompressMessage the processor has no
\* compressor; a compressor that was flushed is never held, so it is never fed
\* or flushed again; the compressor of a message that starts after an
\* endCompressMessage is a new one, of the level of the sending direction.
C6_CompressorDropped ==
    /\ \A p \in Sides :
          pmce[p].compressor # None => ~pmce[p].compressor.flushed
    /\ (call.op = "endCompressMessage" /\ call.exc = "")
          => pmce[sender].compressor = None
    /\ (call.op = "startCompressMessage" /\ sent = NoMsg)
          => pmce[sender].compressor = BZ2Compressor(SendLevel(pmce[sender]))

\* a message starts after the previous one was ended and received
C6_Witness ==
    /\ call.op = "startCompressMessage"
    /\ sent = NoMsg
    /\ rcvd.ok
    /\ rcvd.data # <<>>
    /\ Receiver.decompressor # None
    /\ Receiver.decompressor.st = "eos"
    /\ pmce[sender].compressor # None
    /\ ~pmce[sender].compressor.hdr

\* the step is a call of the method op
Called(op) == call'.op = op

\* C7: endCompressMessage after a successful endCompressMessage, with no
\* startCompressMessage in between, either fails and leaves the processor
\* without a compressor and what was sent as it was, or returns empty output;
\* it never fails leaving a compressor behind.
C7_SecondEnd ==
    [][\A p \in Sides :
          (Called("endCompressMessage") /\ p = sender /\ sent.done
           /\ EndCompressMessage(p))
              => \/ /\ call'.exc # ""
                    /\ pmce' = pmce
                    /\ pmce'[p].compressor = None
                    /\ wire' = wire
                 \/ /\ call'.exc = ""
                    /\ call'.ret = <<>>
                    /\ pmce'[p].compressor = None]_vars

C7_Witness ==
    /\ call.op = "endCompressMessage"
    /\ call.exc = "AttributeError"
    /\ sent.done
    /\ sent.data # <<>>
    /\ pmce[sender].compressor = None
    /\ wire.toks # <<>>

\* C12: decompressMessageData on a processor that has a decompressor, with
\* data the decompressor finds to be no compressed stream, raises the error of
\* the decompressor and returns no bytes; nothing is added to what was
\* received, and the call is not repeated.  Data that is no stream at all
\* always fails, with EOFError in place of IOError when the decompressor had
\* already reached the end of its stream.
C12_CorruptData ==
    [][\A q \in Sides :
          (Called("decompressMessageData") /\ pmce[q].decompressor # None) =>
              /\ (pmce'[q].decompressor.st = "bad"
                  /\ (DecompressMessageData(q) \/ DecompressJunk(q)))
                    => /\ call'.exc = "IOError"
                       /\ call'.ret = <<>>
                       /\ rcvd'.data = rcvd.data
              /\ DecompressJunk(q)
                    => /\ call'.exc = (IF pmce[q].decompressor.st = "eos"
                                       THEN "EOFError" ELSE "IOError")
                       /\ call'.ret = <<>>
                       /\ rcvd'.data = rcvd.data]_vars

\* a decompressor that has delivered a part of a message is fed corrupt data
C12_Witness ==
    /\ call.op = "decompressMessageData"
    /\ call.exc = "IOError"
    /\ call.ret = <<>>
    /\ Receiver.decompressor # None
    /\ Receiver.decompressor.st = "bad"
    /\ rcvd.data = <<"a">>
    /\ ~rcvd.ok

HasParam(name) == \E i \in 1..Len(params) : params[i].name = name

ReturnedOffer == ParsedOffer /\ call.exc = ""

\* C13 as stated: Offer.parse of a mapping without c2s_max_compress_level
\* returns the acceptMaxCompressLevel of a default-constructed Offer (true), of
\* a mapping without s2c_max_compress_level requestMaxCompressLevel = 0, and of
\* the empty mapping the default-constructed Offer.
C13_ParseDefaultsOfConstructor ==
    ReturnedOffer =>
        LET default == PerMessageBzip2Offer(OfferInitDefaults.acceptMaxCompressLevel,
                                            OfferInitDefaults.requestMaxCompressLevel).obj
        IN /\ ~HasParam("c2s_max_compress_level")
                 => offer.acceptMaxCompressLevel = default.acceptMaxCompressLevel
           /\ ~HasParam("s2c_max_compress_level")
                 => offer.requestMaxCompressLevel = 0
           /\ params = <<>> => offer = default

\* C13, amended: Offer.parse of a mapping without c2s_max_compress_level
\* returns acceptMaxCompressLevel = false, which is not the default of the
\* constructor (true); of a mapping without s2c_max_compress_level it returns
\* requestMaxCompressLevel = 0; Offer.parse of the empty mapping equals the
\* Offer constructed with (false, 0).
C13_ParseDefaults ==
    ReturnedOffer =>
        /\ ~HasParam("c2s_max_compress_level") => offer.acceptMaxCompressLevel = FALSE
        /\ ~HasParam("s2c_max_compress_level") => offer.requestMaxCompressLevel = 0
        /\ params = <<>>
              => offer = [class |-> "PerMessageBzip2Offer",
                          acceptMaxCompressLevel |-> FALSE,
                          requestMaxCompressLevel |-> 0]

C13_Witness ==
    /\ ReturnedOffer
    /\ params = <<>>
    /\ offer.acceptMaxCompressLevel = FALSE
    /\ offer.requestMaxCompressLevel = 0

\* C14: for every Offer and every Accept constructed for it, Response.parse of
\* the parameters of the Accept's string succeeds with s2c_max_compress_level =
\* offer.requestMaxCompressLevel and c2s_max_compress_level =
\* accept.requestMaxCompressLevel; the processor created from the Accept and
\* the one created from the Response hold the same two levels; and the agreed
\* c2s level is non-zero only if the Offer has acceptMaxCompressLevel = true.
C14_Agreement ==
    /\ (ParsedResponse /\ accept # None) =>
          /\ call.exc = ""
          /\ response.s2c_max_compress_level = accept.offer.requestMaxCompressLevel
          /\ response.c2s_max_compress_level = accept.requestMaxCompressLevel
          /\ response.c2s_max_compress_level # 0 => accept.offer.acceptMaxCompressLevel
    /\ (pmce["server"] # None /\ pmce["client"] # None) =>
          /\ pmce["server"].s2c_max_compress_level = pmce["client"].s2c_max_compress_level
          /\ pmce["server"].c2s_max_compress_level = pmce["client"].c2s_max_compress_level

C14_Witness ==
    /\ pc = "created"
    /\ accept.offer.requestMaxCompressLevel = 0
    /\ accept.requestMaxCompressLevel = 6
    /\ response.c2s_max_compress_level = 6
    /\ LevelsOf("server") = <<9, 6>>
    /\ LevelsOf("client") = <<9, 6>>

\* C15: startCompressMessage on a processor without a compressor creates an
\* unused one of level s2c_max_compress_level on the server and of level
\* c2s_max_compress_level on the client, and changes nothing else;
\* startCompressMessage on a processor with a compressor changes nothing: the
\* compressor, its level and what it has buffered stay as they are.
C15_StartSend ==
    [][\A p \in Sides :
          (Called("startCompressMessage") /\ StartCompressMessage(p)) =>
              IF pmce[p].compressor = None
              THEN /\ pmce'[p].compressor.level =
                        (IF p = "server" THEN pmce[p].s2c_max_compress_level
                                         ELSE pmce[p].c2s_max_compress_level)
                   /\ pmce'[p].compressor.buf = <<>>
                   /\ ~pmce'[p].compressor.hdr
                   /\ ~pmce'[p].compressor.flushed
                   /\ pmce' = [pmce EXCEPT ![p].compressor = pmce'[p].compressor]
              ELSE /\ pmce' = pmce
                   /\ wire' = wire
                   /\ sent' = sent]_vars

\* the server starts again after it has fed data that the compressor buffers
C15_Witness ==
    /\ call.op = "startCompressMessage"
    /\ sender = "server"
    /\ pmce["server"].compressor # None
    /\ pmce["server"].compressor.level = pmce["server"].s2c_max_compress_level
    /\ pmce["server"].compressor.buf = <<"a", "b">>
    /\ sent.data = <<"a", "b">>

\* C16: startDecompressMessage on a processor without a decompressor creates
\* an unused one and changes nothing else; on a processor with a decompressor
\* it changes nothing, the state of the decompressor included; after
\* endDecompressMessage the processor has no decompressor, whatever it had
\* before, so the next message gets a decompressor of its own.
C16_ReceiveLifecycle ==
    [][\A q \in Sides :
          /\ (Called("startDecompressMessage") /\ StartDecompressMessage(q)) =>
                IF pmce[q].decompressor = None
                THEN /\ pmce'[q].decompressor.st = "new"
                     /\ pmce'[q].decompressor.unused_data = <<>>
                     /\ pmce' = [pmce EXCEPT ![q].decompressor = pmce'[q].decompressor]
                ELSE pmce' = pmce
          /\ (Called("endDecompressMessage") /\ EndDecompressMessage(q)) =>
                /\ pmce'[q].decompressor = None
                /\ pmce' = [pmce EXCEPT ![q].decompressor = None]]_vars

\* the decompressor that received a whole message has been discarded
C16_Witness ==
    /\ call.op = "endDecompressMessage"
    /\ Received
    /\ rcvd.data = <<"a", "b">>
    /\ Receiver.decompressor = None

\* the processor of side p with the other direction never used
SendAlone(p) == [pmce[p] EXCEPT !.decompressor = None]
ReceiveAlone(p) == [pmce[p] EXCEPT !.compressor = None]

\* the call made in this step has the outcome r, for the codec named
SameSend(p, r) ==
    /\ call'.exc = r.exc
    /\ call'.ret = r.ret
    /\ pmce'[p].compressor = r.obj.compressor

SameReceive(p, r) ==
    /\ call'.exc = r.exc
    /\ call'.ret = r.ret
    /\ pmce'[p].decompressor = r.obj.decompressor

SenderLevel ==
    IF sender = "server" THEN pmce[sender].s2c_max_compress_level
    ELSE pmce[sender].c2s_max_compress_level

\* what a compressor that was never used returns for data, and becomes
FirstFed(level, data) == BZ2Compress(BZ2Compressor(level), data)

\* the stream of a message that is the first of its processor
FirstStream(level, data) ==
    FirstFed(level, data).ret \o BZ2Flush(FirstFed(level, data).obj).ret

\* C18: whatever messages went before, the compressor of the current message
\* is in the state, and the bytes emitted for it are those, of a processor of
\* the same level that never sent a message and was fed the same payload; and
\* what the receiver's decompressor returns for a whole message is what a
\* decompressor that was never used returns for its stream.
C18_NoLeakage ==
    /\ (pmce[sender].compressor # None /\ ~sent.done) =>
          /\ pmce[sender].compressor = FirstFed(SenderLevel, sent.data).obj
          /\ wire.taken = 0 => wire.toks = FirstFed(SenderLevel, sent.data).ret
    /\ (sent.done /\ wire.taken = 0) =>
          wire.toks = FirstStream(SenderLevel, sent.data)
    /\ Received =>
          rcvd.data = BZ2Decompress(BZ2Decompressor,
                                    FirstStream(SenderLevel, sent.data)).ret

\* a message is complete on the wire while the receiver still holds the
\* decompressor that received the message before it
C18_Witness ==
    /\ sent.done
    /\ sent.data = <<"b">>
    /\ wire.taken = 0
    /\ wire.toks = FirstStream(SenderLevel, <<"b">>)
    /\ rcvd.ok
    /\ rcvd.data = <<"a">>
    /\ Receiver.decompressor # None
    /\ Receiver.decompressor.st = "eos"

\* C19: Offer.parse of any mapping either fails with the duplicate, the
\* unknown-parameter or the invalid-value error and returns nothing, or returns
\* an Offer whose acceptMaxCompressLevel is a boolean and whose
\* requestMaxCompressLevel is in 0..9; it never fails with the type or range
\* error of the constructor.
C19_ParseTotal ==
    ParsedOffer =>
        \/ /\ call.exc \in {"multiple occurence of extension parameter",
                             "illegal extension parameter",
                             "illegal extension parameter value"}
           /\ offer = None
        \/ /\ call.exc = ""
           /\ offer.class = "PerMessageBzip2Offer"
           /\ offer.acceptMaxCompressLevel \in BOOLEAN
           /\ offer.requestMaxCompressLevel \in 0..9

C19_Witness ==
    /\ ReturnedOffer
    /\ Len(params) = 2
    /\ offer.acceptMaxCompressLevel = TRUE
    /\ offer.requestMaxCompressLevel = 9

\* the call of this step failed, returned nothing and changed no processor
Rejected ==
    /\ call'.exc = "AttributeError"
    /\ call'.ret = <<>>
    /\ pmce' = pmce
    /\ sent' = sent

\* C20: compressMessageData and endCompressMessage on a processor without a
\* compressor (before any startCompressMessage, or after endCompressMessage),
\* and decompressMessageData on a processor without a decompressor, raise an
\* error, return no bytes and leave both codecs, the role and the levels as
\* they are; endDecompressMessage on a processor without a decompressor
\* succeeds and leaves it without one.
C20_OutOfOrder ==
    [][\A p \in Sides :
          /\ (Called("compressMessageData") /\ pmce[p].compressor = None
               /\ CompressMessageData(p)) => Rejected
          /\ (Called("endCompressMessage") /\ pmce[p].compressor = None
               /\ EndCompressMessage(p)) => Rejected
          /\ (Called("decompressMessageData") /\ pmce[p].decompressor = None
               /\ (DecompressMessageData(p) \/ DecompressJunk(p))) => Rejected
          /\ (Called("endDecompressMessage") /\ pmce[p].decompressor = None
               /\ EndDecompressMessage(p))
                => /\ call'.exc = ""
                   /\ pmce' = pmce
                   /\ pmce'[p].decompressor = None]_vars

\* data is fed after the message was ended
C20_Witness ==
    /\ call.op = "compressMessageData"
    /\ call.exc = "AttributeError"
    /\ call.ret = <<>>
    /\ sent.done
    /\ sent.data = <<"a">>
    /\ pmce[sender].compressor = None

====
